---- MODULE Spec2Model ----
(***************************************************************************)
(* Model of the adaptive password hasher (src/hasher.go): New, Hash,       *)
(* Verify, the 13-byte header codec (writeHeaderValue / scanHeader) and    *)
(* alg.  Byte slices are sequences of 0..255 (Go offset k is index k+1).   *)
(* The build modelled is the 64-bit one: int and uint are 64 bits wide.    *)
(***************************************************************************)
EXTENDS Integers, Sequences, FiniteSets, TLC

\* ------------------------------------------------------------------ bounds
\* Largest salt size, in bytes, a caller configures through New.
MaxSaltBytes == 2
\* Largest key size, in bytes, a caller configures through New.
MaxKeyBytes == 2
\* Goroutines calling Hash and Verify concurrently.
NumGoroutines == 2

\* ------------------------------------------------------- program constants
HashSHA256 == 1
HashSHA512 == 2
DefaultIterationCount == 1000
DefaultSaltSize == 128
DefaultKeySize == 256
DefaultHashKey == HashSHA256
formatMarker == 1

ErrInvalidIterationCount == "iteration count must be at least 1"
ErrInvalidSaltSize == "salt size must be positive and divisible by 8"
ErrInvalidKeySize == "key size must be positive and divisinle by 8"
NoError == "nil"

\* ----------------------------------------------------------- Go integers
\* A 64-bit Go int/uint that travels through the header (iteration count,
\* hash key, scanned header fields) is kept as its 8 bytes, most significant
\* first, two's complement: the header codec keeps only the low 4 of them.
\* Sizes and lengths, which the model keeps small, are plain integers.
Int64(n) ==
  << 0, 0, 0, 0,
     (n \div 16777216) % 256, (n \div 65536) % 256, (n \div 256) % 256, n % 256 >>

\* -1 as a Go int.
MinusOne == << 255, 255, 255, 255, 255, 255, 255, 255 >>

\* 2^32 + 1 as a Go int: the smallest count above 1 whose low 32 bits are 1.
TwoTo32Plus1 == << 0, 0, 0, 1, 0, 0, 0, 1 >>

\* w < 1, for a Go int w.
LessThanOne(w) == w[1] >= 128 \/ w = Int64(0)

\* A non-negative Go int below 2^31, the range of the model's plain integers.
Fits31(w) == w[1] = 0 /\ w[2] = 0 /\ w[3] = 0 /\ w[4] = 0 /\ w[5] < 128

\* The plain integer of such a word.
AsInt(w) == ((w[5] * 256 + w[6]) * 256 + w[7]) * 256 + w[8]

\* Go's / and % truncate toward zero.
GoDiv(a, b) == IF a >= 0 THEN a \div b ELSE -((-a) \div b)
GoMod(a, b) == IF a >= 0 THEN a % b ELSE -((-a) % b)

\* make([]byte, n)
Make(n) == [i \in 1..n |-> 0]

\* copy(dst[at:], src): min(len(dst)-at, len(src)) bytes are copied.
Copy(dst, at, src) ==
  [i \in 1..Len(dst) |->
     IF i > at /\ i - at <= Len(src) THEN src[i - at] ELSE dst[i]]

\* s[lo:hi] (Go offsets).
Slice(s, lo, hi) == [i \in 1..(hi - lo) |-> s[lo + i]]

\* ------------------------------------------------ external collaborators
\* prf.Size() of HMAC over the digest.
HashLen(digest) == IF digest = "sha256" THEN 32 ELSE 64

RECURSIVE Fold(_)
Fold(s) ==
  IF Len(s) = 0 THEN 7
  ELSE (Fold(SubSeq(s, 1, Len(s) - 1)) * 31 + s[Len(s)] + 1) % 65521

\* pbkdf2.Key runs rounds 2..iter after the first: any iter < 1 does what 1 does.
Rounds(iter) == IF LessThanOne(iter) THEN Int64(1) ELSE iter

\* pbkdf2.Key(password, salt, iter, keyLen, h): a deterministic stand-in that
\* depends on every argument and, like PBKDF2, yields blocks of HashLen bytes
\* cut to keyLen (so a shorter key is a prefix of a longer one).
Key(password, salt, iter, keyLen, digest) ==
  LET seed == Fold(password) * 3 + Fold(salt) * 5 + Fold(Rounds(iter)) * 7
              + HashLen(digest) * 11
  IN [j \in 1..keyLen |->
        (seed + ((j - 1) \div HashLen(digest)) * 17 + j * 13) % 256]

\* subtle.ConstantTimeCompare(x, y) == 1
ConstantTimeEqual(x, y) ==
  Len(x) = Len(y) /\ \A i \in 1..Len(x) : x[i] = y[i]

\* ------------------------------------------------------------------- alg
Panic == "panic"

\* alg(key): the digest for a hash key, or a panic.
alg(key) ==
  IF key = Int64(HashSHA256) THEN "sha256"
  ELSE IF key = Int64(HashSHA512) THEN "sha512"
  ELSE Panic

\* ------------------------------------------------------------------- New
Nil == [nil |-> TRUE]

\* New without the size floors (saltSize/8 < 1, keySize/8 < 1): only the
\* divisibility is checked.
NewWithoutFloor(iterCtn, saltSize, keySize, hashKey) ==
  IF LessThanOne(iterCtn)
    THEN [h |-> Nil, err |-> ErrInvalidIterationCount]
  ELSE IF GoMod(saltSize, 8) # 0
    THEN [h |-> Nil, err |-> ErrInvalidSaltSize]
  ELSE IF GoMod(keySize, 8) # 0
    THEN [h |-> Nil, err |-> ErrInvalidKeySize]
  ELSE [h |-> [iterCnt |-> iterCtn, saltSize |-> GoDiv(saltSize, 8),
               keySize |-> GoDiv(keySize, 8), hashKey |-> hashKey],
        err |-> NoError]

New(iterCtn, saltSize, keySize, hashKey) ==
  IF LessThanOne(iterCtn)
    THEN [h |-> Nil, err |-> ErrInvalidIterationCount]
  ELSE IF GoMod(saltSize, 8) # 0 \/ GoDiv(saltSize, 8) < 1
    THEN [h |-> Nil, err |-> ErrInvalidSaltSize]
  ELSE IF GoMod(keySize, 8) # 0 \/ GoDiv(keySize, 8) < 1
    THEN [h |-> Nil, err |-> ErrInvalidKeySize]
  ELSE [h |-> [iterCnt |-> iterCtn, saltSize |-> GoDiv(saltSize, 8),
               keySize |-> GoDiv(keySize, 8), hashKey |-> hashKey],
        err |-> NoError]

\* ------------------------------------------------------------------ Hash
\* writeHeaderValue(buf, offset, value): byte(value>>24), >>16, >>8, >>0.
writeHeaderValue(buf, offset, value) ==
  [i \in 1..Len(buf) |->
     IF i = offset + 1 THEN value[5]
     ELSE IF i = offset + 2 THEN value[6]
     ELSE IF i = offset + 3 THEN value[7]
     ELSE IF i = offset + 4 THEN value[8]
     ELSE buf[i]]

\* rand.Read(salt) with outcome rnd: rnd.n bytes of the zeroed buffer are
\* filled; the error it returns (non-nil exactly when rnd.n < len(salt)) is
\* dropped by Hash.
randRead(salt, rnd) ==
  [i \in 1..Len(salt) |-> IF i <= rnd.n THEN rnd.fill ELSE salt[i]]

\* (h *hasher) Hash(pwd), the random source behaving as rnd.
hasherHash(h, pwd, rnd) ==
  LET salt == randRead(Make(h.saltSize), rnd)
      digest == alg(h.hashKey)
  IN IF digest = Panic THEN [panic |-> TRUE, out |-> << >>]
     ELSE
       LET subKey == Key(pwd, salt, h.iterCnt, h.keySize, digest)
           out0 == [Make(13 + h.saltSize + h.keySize) EXCEPT ![1] = formatMarker]
           out1 == writeHeaderValue(out0, 1, h.hashKey)
           out2 == writeHeaderValue(out1, 5, h.iterCnt)
           out3 == writeHeaderValue(out2, 9, Int64(Len(salt)))
           out4 == Copy(out3, 13, salt)
           out5 == Copy(out4, 13 + Len(salt), subKey)
       IN [panic |-> FALSE, out |-> out5]

\* ---------------------------------------------------------------- Verify
\* scanHeader(buf): the three big-endian fields at offsets 1, 5 and 9.
scanHeader(buf) ==
  IF Len(buf) < 5 THEN [panic |-> TRUE]
  ELSE LET v1 == << 0, 0, 0, 0, buf[2], buf[3], buf[4], buf[5] >>
       IN IF alg(v1) = Panic \/ Len(buf) < 13 THEN [panic |-> TRUE]
          ELSE [panic |-> FALSE,
                hashAlg |-> alg(v1),
                iterCnt |-> << 0, 0, 0, 0, buf[6], buf[7], buf[8], buf[9] >>,
                saltSize |-> << 0, 0, 0, 0, buf[10], buf[11], buf[12], buf[13] >>]

\* saltLen < h.saltSize, for a scanned salt length (never negative).
saltTooSmall(h, saltLen) == Fits31(saltLen) /\ AsInt(saltLen) < h.saltSize

\* The key floor lost: only a negative length is refused.
keyTooSmallNegativeOnly(h, subKeyLen) == subKeyLen < 0

\* subKeyLen < h.keySize
keyTooSmall(h, subKeyLen) == subKeyLen < h.keySize

\* The copy with its arguments swapped: copy(hash[13:13+saltLen], salt[:]).
takeSaltSwapped(hash, saltLen) ==
  [salt |-> Make(saltLen), hash |-> Copy(hash, 13, Make(saltLen))]

\* salt := make([]byte, saltLen); copy(salt[:], hash[13:13+saltLen]): the salt
\* taken, and the hash buffer as the copy leaves it.
takeSalt(hash, saltLen) ==
  [salt |-> Copy(Make(saltLen), 0, Slice(hash, 13, 13 + saltLen)), hash |-> hash]

\* The sub-key derived with the hasher's own iteration count.
rederiveConfigured(h, pwd, salt, hdr, subKeyLen) ==
  Key(pwd, salt, h.iterCnt, subKeyLen, hdr.hashAlg)

\* actual := pbkdf2.Key(pwd, salt, iterCnt, subKeyLen, hashFunc), on receiver h
\* with the scanned header hdr.
rederive(h, pwd, salt, hdr, subKeyLen) ==
  Key(pwd, salt, hdr.iterCnt, subKeyLen, hdr.hashAlg)

\* The body of Verify, before the deferred recover: hash has capacity hashCap.
verifyBody(h, pwd, hash, hashCap) ==
  IF Len(hash) < 1 THEN [panic |-> TRUE, ok |-> FALSE]
  ELSE IF hash[1] # formatMarker THEN [panic |-> FALSE, ok |-> FALSE]
  ELSE
    LET hdr == scanHeader(hash) IN
    IF hdr.panic THEN [panic |-> TRUE, ok |-> FALSE]
    ELSE IF saltTooSmall(h, hdr.saltSize) THEN [panic |-> FALSE, ok |-> FALSE]
    \* hash[13:13+saltLen] panics when 13+saltLen exceeds cap(hash)
    ELSE IF ~Fits31(hdr.saltSize) \/ 13 + AsInt(hdr.saltSize) > hashCap
      THEN [panic |-> TRUE, ok |-> FALSE]
    ELSE
      LET saltLen == AsInt(hdr.saltSize)
          subKeyLen == Len(hash) - 13 - saltLen
      IN IF keyTooSmall(h, subKeyLen) THEN [panic |-> FALSE, ok |-> FALSE]
         ELSE
           LET salt == takeSalt(hash, saltLen).salt
               expected == Slice(hash, 13 + saltLen, 13 + saltLen + subKeyLen)
               actual == rederive(h, pwd, salt, hdr, subKeyLen)
           IN [panic |-> FALSE, ok |-> ConstantTimeEqual(actual, expected)]

\* No deferred recover: a panic leaves Verify.
recoverNothing(r) == r

\* The deferred function of Verify: a panic is recovered and ok set to false.
recover(r) == IF r.panic THEN [panic |-> FALSE, ok |-> FALSE] ELSE r

\* (h *hasher) Verify(pwd, hash)
hasherVerify(h, pwd, hash, hashCap) == recover(verifyBody(h, pwd, hash, hashCap))

\* ------------------------------------------------------------ the inputs
\* Iteration counts handed to New: 0 and -1 (rejected), 1, and a count above
\* 2^32, which a 64-bit int holds.
IterationCounts == { Int64(0), MinusOne, Int64(1), TwoTo32Plus1 }

\* Salt sizes in bits: negative, zero, not a multiple of 8, and the valid ones.
SaltBits == { -8, 0, 14 } \cup { 8 * k : k \in 1..MaxSaltBytes }

\* Key sizes in bits, likewise.
KeyBits == { -8, 0, 14 } \cup { 8 * k : k \in 1..MaxKeyBytes }

\* Hash keys: the two known ones and one that is not.
HashKeys == { Int64(HashSHA256), Int64(HashSHA512), Int64(3) }

\* "p" and "pw".
Passwords == { << 112 >>, << 112, 119 >> }

\* What rand.Read may do to a salt of the given size (at least 1): fill it, or
\* stop one byte short with an error (for a 1-byte salt: fill nothing).
RandOutcomes(size) ==
  { [n |-> k, fill |-> 7] : k \in { size - 1, size } }

\* The hash arguments a caller hands to Verify, given the buffer o it holds:
\* o itself, o resliced shorter (the capacity stays), and o with one byte
\* overwritten (marker, digest selector, iteration count, salt length, sub-key).
Truncations(o) ==
  { [hash |-> SubSeq(o, 1, k), cap |-> Len(o)] :
      k \in { 0, 12, 13, Len(o) - 1 } \cap 0..Len(o) }

Overwrites(o) ==
  IF Len(o) < 13 THEN { }
  ELSE { [hash |-> [o EXCEPT ![w[1]] = w[2]], cap |-> Len(o)] :
           w \in { << 1, 35 >>, << 5, 3 >>, << 5, 3 - o[5] >>, << 9, 0 >>,
                   << 10, 255 >>, << 13, o[13] - 1 >>, << 13, o[13] + 1 >>,
                   << Len(o), (o[Len(o)] + 1) % 256 >> } }

HashArguments(o) ==
  { [hash |-> o, cap |-> Len(o)] } \cup Truncations(o) \cup Overwrites(o)

\* ---------------------------------------------------------------- state
VARIABLES
  defaultHasher,  \* the package's default hasher, set by init()
  hasher,         \* the Hasher the caller got from its last New (Nil: none)
  stored,         \* the hash the caller keeps, and the Hash call that made it
  last,           \* the last call made and what it returned
  calls           \* per goroutine: the call it is in, its locals, its result

vars == << defaultHasher, hasher, stored, last, calls >>

\* The goroutines that share the hashers and the caller's buffers.
Goroutines == 1..NumGoroutines

\* init(): defaultHasher, _ = New(Default...)
init ==
  New(Int64(DefaultIterationCount), DefaultSaltSize, DefaultKeySize,
      Int64(DefaultHashKey)).h

Init ==
  /\ defaultHasher = init
  /\ hasher = Nil
  /\ stored = [some |-> FALSE, out |-> << >>]
  /\ last = [op |-> "none"]
  /\ calls = [g \in Goroutines |-> [pc |-> "idle"]]

\* A caller's session, as the README and its tests run it: it may configure a
\* hasher, hashes a password once, may configure another hasher, and verifies.
\* It stops after a failed New (README: panic(err)), after a panic that
\* escaped a call, and after it has verified.
Ended ==
  \/ last.op = "Verify"
  \/ last.op = "New" /\ last.err # NoError
  \/ last.op = "Hash" /\ last.panic

\* The calls a caller makes to verify: the password it hashed against every
\* hash argument, and every other password against the hash it holds.
VerifyArguments ==
  { a \in Passwords \X HashArguments(stored.out) :
      ~stored.some \/ a[1] = stored.pwd \/ a[2].hash = stored.out }

\* hasher, err := New(iterCtn, saltSize, keySize, hashKey)
CallNew ==
  /\ last.op \in { "none", "Hash" } /\ ~Ended
  /\ \E iterCtn \in IterationCounts, saltSize \in SaltBits,
        keySize \in KeyBits, hashKey \in HashKeys :
       LET r == New(iterCtn, saltSize, keySize, hashKey) IN
       /\ hasher' = r.h
       /\ last' = [op |-> "New", iterCtn |-> iterCtn, saltSize |-> saltSize,
                   keySize |-> keySize, hashKey |-> hashKey,
                   h |-> r.h, err |-> r.err]
  /\ UNCHANGED << defaultHasher, stored, calls >>

\* out := h.Hash(pwd) on receiver h; the caller keeps what is returned.
HashCall(h, pwd, rnd) ==
  LET r == hasherHash(h, pwd, rnd) IN
  /\ last' = [op |-> "Hash", h |-> h, pwd |-> pwd, rnd |-> rnd,
              randErr |-> rnd.n < h.saltSize, panic |-> r.panic, out |-> r.out]
  /\ stored' = IF r.panic THEN stored
               ELSE [some |-> TRUE, out |-> r.out, by |-> h, pwd |-> pwd,
                     randErr |-> rnd.n < h.saltSize]
  /\ UNCHANGED << defaultHasher, hasher, calls >>

\* ok := h.Verify(pwd, hash) on receiver h.
VerifyCall(h, pwd, arg) ==
  LET r == hasherVerify(h, pwd, arg.hash, arg.cap) IN
  /\ last' = [op |-> "Verify", h |-> h, pwd |-> pwd, hash |-> arg.hash,
              cap |-> arg.cap, ok |-> r.ok, panic |-> r.panic]
  /\ UNCHANGED << defaultHasher, hasher, stored, calls >>

\* Hash(pwd): the package-level function, on the default hasher.
Hash ==
  /\ ~stored.some /\ ~Ended
  /\ \E pwd \in Passwords, rnd \in RandOutcomes(defaultHasher.saltSize) :
       HashCall(defaultHasher, pwd, rnd)

\* hasher.Hash(pwd) on the caller's own hasher.
MethodHash ==
  /\ ~stored.some /\ ~Ended
  /\ hasher # Nil
  /\ \E pwd \in Passwords, rnd \in RandOutcomes(hasher.saltSize) :
       HashCall(hasher, pwd, rnd)

\* Verify(pwd, hash): the package-level function, on the default hasher.
Verify ==
  /\ ~Ended
  /\ \E a \in VerifyArguments : VerifyCall(defaultHasher, a[1], a[2])

\* hasher.Verify(pwd, hash) on the caller's own hasher.
MethodVerify ==
  /\ ~Ended
  /\ hasher # Nil
  /\ \E a \in VerifyArguments : VerifyCall(hasher, a[1], a[2])

Next == CallNew \/ Hash \/ MethodHash \/ Verify \/ MethodVerify

Spec == Init /\ [][Next]_vars
\* ------------------------------------------------- concurrent callers
\* Goroutines share the default hasher, one hasher from New, a password
\* buffer (stored.pwd) and a hash buffer (stored.out), and call Hash and
\* Verify on them any number of times.  Each call runs in the steps below,
\* every step reading the shared memory as it is when the step runs.

\* The configurations of the shared hasher.
SharedConfigurations ==
  { << Int64(1), 8, 8, Int64(HashSHA256) >>,
    << TwoTo32Plus1, 16, 16, Int64(HashSHA512) >> }

InitConc ==
  /\ defaultHasher = init
  /\ \E c \in SharedConfigurations : hasher = New(c[1], c[2], c[3], c[4]).h
  /\ \E by \in { defaultHasher, hasher }, pwd \in Passwords :
       stored = [some |-> TRUE,
                 out |-> hasherHash(by, pwd, [n |-> by.saltSize, fill |-> 7]).out,
                 by |-> by, pwd |-> pwd, randErr |-> FALSE]
  /\ last = [op |-> "none"]
  /\ calls = [g \in Goroutines |-> [pc |-> "idle"]]

\* The receiver of a call: the default hasher or the caller's own.
Receiver(recv) == IF recv = "default" THEN defaultHasher ELSE hasher

\* A goroutine between calls.
Free(g) == calls[g].pc \in { "idle", "returned" }

\* The hash argument of goroutine g's Verify: the first len bytes of the
\* shared hash buffer.
HashOf(g) == SubSeq(stored.out, 1, calls[g].len)

Returned(c, result) ==
  [pc |-> "returned", op |-> c.op, recv |-> c.recv, result |-> result]

\* Hash, lines 116-117: salt := make([]byte, h.saltSize); rand.Read(salt)
HashSalt(g) ==
  /\ Free(g)
  /\ \E recv \in { "default", "own" } :
       \E rnd \in RandOutcomes(Receiver(recv).saltSize) :
         calls' = [calls EXCEPT ![g] =
                     [pc |-> "derive", op |-> "Hash", recv |-> recv, rnd |-> rnd,
                      salt |-> randRead(Make(Receiver(recv).saltSize), rnd)]]
  /\ UNCHANGED << defaultHasher, hasher, stored, last >>

\* Hash, line 118: subKey := pbkdf2.Key(pwd, salt, h.iterCnt, h.keySize, alg(h.hashKey))
HashDerive(g) ==
  /\ calls[g].pc = "derive"
  /\ LET c == calls[g]
         h == Receiver(c.recv)
     IN calls' = [calls EXCEPT ![g] =
                    [c EXCEPT !.pc = "assemble"] @@
                    [subKey |-> Key(stored.pwd, c.salt, h.iterCnt, h.keySize,
                                    alg(h.hashKey))]]
  /\ UNCHANGED << defaultHasher, hasher, stored, last >>

\* Hash, lines 120-132: the output buffer is made, filled and returned.
HashAssemble(g) ==
  /\ calls[g].pc = "assemble"
  /\ LET c == calls[g]
         h == Receiver(c.recv)
         out0 == [Make(13 + h.saltSize + h.keySize) EXCEPT ![1] = formatMarker]
         out1 == writeHeaderValue(out0, 1, h.hashKey)
         out2 == writeHeaderValue(out1, 5, h.iterCnt)
         out3 == writeHeaderValue(out2, 9, Int64(Len(c.salt)))
         out4 == Copy(out3, 13, c.salt)
         out5 == Copy(out4, 13 + Len(c.salt), c.subKey)
     IN calls' = [calls EXCEPT ![g] =
                    Returned(c, out5) @@ [rnd |-> c.rnd]]
  /\ UNCHANGED << defaultHasher, hasher, stored, last >>

\* Verify, lines 160-164: the marker is checked and the header scanned; a
\* panic is recovered by the deferred function (lines 151-158).
VerifyScan(g) ==
  /\ Free(g)
  /\ \E recv \in { "default", "own" }, len \in { 12, Len(stored.out) } :
       LET c == [pc |-> "salt", op |-> "Verify", recv |-> recv, len |-> len]
           hash == SubSeq(stored.out, 1, len)
       IN calls' = [calls EXCEPT ![g] =
            IF hash[1] # formatMarker \/ scanHeader(hash).panic
              THEN Returned(c, FALSE) @@ [len |-> len]
              ELSE c @@ [hdr |-> scanHeader(hash)]]
  /\ UNCHANGED << defaultHasher, hasher, stored, last >>

\* Verify, lines 166-172: the salt floor, then the salt is copied out of the
\* hash buffer.
VerifySalt(g) ==
  /\ calls[g].pc = "salt"
  /\ LET c == calls[g]
         h == Receiver(c.recv)
         fits == Fits31(c.hdr.saltSize) /\ 13 + AsInt(c.hdr.saltSize) <= Len(stored.out)
         took == takeSalt(stored.out, AsInt(c.hdr.saltSize))
     IN IF saltTooSmall(h, c.hdr.saltSize) \/ ~fits
          THEN /\ calls' = [calls EXCEPT ![g] = Returned(c, FALSE) @@ [len |-> c.len]]
               /\ UNCHANGED stored
          ELSE /\ calls' = [calls EXCEPT ![g] =
                              [c EXCEPT !.pc = "key"] @@ [salt |-> took.salt]]
               /\ stored' = [stored EXCEPT !.out = took.hash]
  /\ UNCHANGED << defaultHasher, hasher, last >>

\* Verify, lines 174-178: the key floor.
VerifyKey(g) ==
  /\ calls[g].pc = "key"
  /\ LET c == calls[g]
         h == Receiver(c.recv)
         subKeyLen == c.len - 13 - Len(c.salt)
     IN calls' = [calls EXCEPT ![g] =
          IF keyTooSmall(h, subKeyLen)
            THEN Returned(c, FALSE) @@ [len |-> c.len]
            ELSE [c EXCEPT !.pc = "compare"] @@ [subKeyLen |-> subKeyLen]]
  /\ UNCHANGED << defaultHasher, hasher, stored, last >>

\* Verify, lines 180-184: the sub-key is derived again and compared.
VerifyCompare(g) ==
  /\ calls[g].pc = "compare"
  /\ LET c == calls[g]
         h == Receiver(c.recv)
         from == 13 + Len(c.salt)
         expected == Slice(HashOf(g), from, from + c.subKeyLen)
         actual == rederive(h, stored.pwd, c.salt, c.hdr, c.subKeyLen)
     IN calls' = [calls EXCEPT ![g] =
          Returned(c, ConstantTimeEqual(actual, expected)) @@ [len |-> c.len]]
  /\ UNCHANGED << defaultHasher, hasher, stored, last >>

NextConc ==
  \E g \in Goroutines :
    \/ HashSalt(g) \/ HashDerive(g) \/ HashAssemble(g)
    \/ VerifyScan(g) \/ VerifySalt(g) \/ VerifyKey(g) \/ VerifyCompare(g)

SpecConc == InitConc /\ [][NextConc]_vars

\* -------------------------------------------------------------- claims
\* The hash a Hash call returned, handed back whole with the same password.
RoundTripCall ==
  /\ last.op = "Verify" /\ stored.some
  /\ last.hash = stored.out /\ last.cap = Len(stored.out)
  /\ last.pwd = stored.pwd

\* A 4-byte big-endian header field of a hash, at Go offset off.
Field(hash, off) == << hash[off + 1], hash[off + 2], hash[off + 3], hash[off + 4] >>

\* The field's value is below / above the small integer n.
Below(f, n) == f[1] = 0 /\ (f[2] * 256 + f[3]) * 256 + f[4] < n
Above(f, n) == f[1] > 0 \/ (f[2] * 256 + f[3]) * 256 + f[4] > n

KnownDigest(f) == f = << 0, 0, 0, HashSHA256 >> \/ f = << 0, 0, 0, HashSHA512 >>

\* C1: Round-trip. For every configuration New accepts and every password,
\* Hash returns a hash and the same hasher's Verify of that password and hash
\* returns true.
C1_RoundTrip ==
  /\ (last.op = "Hash" => ~last.panic)
  /\ (RoundTripCall /\ last.h = stored.by => last.ok)

\* The malformed hashes C2 lists.
Malformed(hash) ==
  \/ Len(hash) < 13
  \/ hash[1] # formatMarker
  \/ ~KnownDigest(Field(hash, 1))
  \/ Above(Field(hash, 9), Len(hash) - 13)

\* C2: Verify is total on untrusted input: no panic escapes a Verify call,
\* whatever the hash bytes, and a malformed hash (empty, shorter than 13,
\* wrong marker, unknown digest selector, salt length beyond the buffer)
\* yields false.
C2_VerifyTotal ==
  last.op = "Verify" =>
    /\ ~last.panic
    /\ last.ok \in BOOLEAN
    /\ (Malformed(last.hash) => ~last.ok)

\* A malformed hash on which the body of Verify panicked, verified to false.
C2_Witness ==
  /\ last.op = "Verify"
  /\ Malformed(last.hash)
  /\ verifyBody(last.h, last.pwd, last.hash, last.cap).panic
  /\ ~last.panic /\ ~last.ok

\* saltBits (keyBits) is rejected: not positive, or no multiple of 8.
BadBits(bits) == bits <= 0 \/ bits % 8 # 0

\* C3: New returns ErrInvalidIterationCount when iterCnt < 1; otherwise
\* ErrInvalidSaltSize when saltBits is not a positive multiple of 8; otherwise
\* ErrInvalidKeySize when keyBits is not a positive multiple of 8, each with a
\* nil Hasher; otherwise a nil error and a Hasher of saltBits/8 salt bytes and
\* keyBits/8 key bytes.
C3_NewValidates ==
  last.op = "New" =>
    /\ hasher = last.h
    /\ IF last.iterCtn \in { Int64(0), MinusOne }
         THEN last.err = ErrInvalidIterationCount /\ last.h = Nil
       ELSE IF BadBits(last.saltSize)
         THEN last.err = ErrInvalidSaltSize /\ last.h = Nil
       ELSE IF BadBits(last.keySize)
         THEN last.err = ErrInvalidKeySize /\ last.h = Nil
       ELSE /\ last.err = NoError
            /\ last.h # Nil
            /\ last.h.saltSize * 8 = last.saltSize
            /\ last.h.keySize * 8 = last.keySize

\* New given a salt size that is a negative multiple of 8 and a bad key size:
\* the salt error wins and no Hasher is returned.
C3_Witness ==
  /\ last.op = "New"
  /\ last.saltSize = -8 /\ last.keySize = 14
  /\ last.err = ErrInvalidSaltSize /\ hasher = Nil

\* C4: Downgrade rejection. If the salt length stored in the header is below
\* the hasher's salt size, or the sub-key region is shorter than the hasher's
\* key size, Verify returns false, whatever the password.
C4_DowngradeRejected ==
  last.op = "Verify" /\ Len(last.hash) >= 13 =>
    ( \/ Below(Field(last.hash, 9), last.h.saltSize)
      \/ Above(Field(last.hash, 9), Len(last.hash) - 13 - last.h.keySize)
      => ~last.ok )

\* The right password and the untouched hash, made with as much salt as the
\* verifier asks but a shorter key: rejected.
C4_Witness ==
  /\ RoundTripCall
  /\ stored.by.saltSize >= last.h.saltSize
  /\ stored.by.keySize < last.h.keySize
  /\ ~last.ok

\* C5: Upgrade tolerance. A hash made by hasher A verifies, with the right
\* password, under any hasher B whose salt size and key size are at most A's.
C5_UpgradeTolerance ==
  /\ RoundTripCall
  /\ last.h.saltSize <= stored.by.saltSize
  /\ last.h.keySize <= stored.by.keySize
  => last.ok

\* C6: When the random source fails or fills fewer than saltSize bytes, Hash
\* fails and returns no encoded hash.
C6_RandFailurePropagates ==
  last.op = "Hash" /\ last.randErr => last.panic \/ Len(last.out) = 0

\* C7: Every Hasher New returns has iteration count >= 1, salt and key length
\* >= 1 and a known digest selector, so Hash never panics on the selector.
C7_ConstructionValidates ==
  /\ hasher # Nil =>
       /\ ~LessThanOne(hasher.iterCnt)
       /\ hasher.saltSize >= 1 /\ hasher.keySize >= 1
       /\ hasher.hashKey \in { Int64(HashSHA256), Int64(HashSHA512) }
  /\ last.op = "Hash" => ~last.panic

\* C8: Hash returns 13 + saltBytes + keyBytes bytes: the marker, the header
\* fields that scanHeader reads back as the hasher's digest, iteration count
\* and salt length, then the salt, then the derived sub-key.
C8_EncodedLayout ==
  last.op = "Hash" =>
    /\ ~last.panic
    /\ Len(last.out) = 13 + last.h.saltSize + last.h.keySize
    /\ last.out[1] = formatMarker
    /\ ~scanHeader(last.out).panic
    /\ scanHeader(last.out).hashAlg = alg(last.h.hashKey)
    /\ scanHeader(last.out).iterCnt = last.h.iterCnt
    /\ scanHeader(last.out).saltSize = Int64(last.h.saltSize)
    /\ LET salt == SubSeq(last.out, 14, 13 + last.h.saltSize) IN
       /\ salt = randRead(Make(last.h.saltSize), last.rnd)
       /\ SubSeq(last.out, 14 + last.h.saltSize, Len(last.out))
            = Key(last.pwd, salt, last.h.iterCnt, last.h.keySize, alg(last.h.hashKey))

\* What C10 says Verify returns, from the bytes of the hash alone.
StoredParametersMatch(h, pwd, hash) ==
  /\ Len(hash) >= 13
  /\ hash[1] = formatMarker
  /\ KnownDigest(Field(hash, 1))
  /\ ~Below(Field(hash, 9), h.saltSize)
  /\ ~Above(Field(hash, 9), Len(hash) - 13)
  /\ LET saltLen == (hash[11] * 256 + hash[12]) * 256 + hash[13]
         L == Len(hash) - 13 - saltLen
     IN /\ L >= h.keySize
        /\ Key(pwd, SubSeq(hash, 14, 13 + saltLen),
               << 0, 0, 0, 0 >> \o Field(hash, 5), L,
               IF hash[5] = HashSHA256 THEN "sha256" ELSE "sha512")
             = SubSeq(hash, 14 + saltLen, Len(hash))

\* C10: Verify returns true exactly when the hash is well formed, its stored
\* salt and sub-key lengths are at least the hasher's, and the sub-key derived
\* with the stored salt, stored iteration count and stored digest equals the
\* stored sub-key: the hasher's own iteration count and digest play no part.
C10_VerifyUsesStored ==
  last.op = "Verify" => (last.ok <=> StoredParametersMatch(last.h, last.pwd, last.hash))

\* A hash whose stored iteration count was overwritten with 0 verifies under a
\* hasher with another iteration count and an unknown digest selector.
C10_Witness ==
  /\ last.op = "Verify" /\ stored.some /\ last.ok
  /\ Field(last.hash, 5) = << 0, 0, 0, 0 >>
  /\ last.h.iterCnt # stored.by.iterCnt
  /\ last.h.hashKey = Int64(3)

\* A returned call's result is what the same call yields run alone on the
\* shared hashers and buffers.
ResultAsAlone(g) ==
  LET c == calls[g] IN
  c.pc = "returned" =>
    IF c.op = "Hash"
      THEN c.result = hasherHash(Receiver(c.recv), stored.pwd, c.rnd).out
      ELSE c.result = hasherVerify(Receiver(c.recv), stored.pwd, HashOf(g),
                                   Len(stored.out)).ok

\* C9: No step of any Hash or Verify call, however the calls of concurrent
\* goroutines interleave, changes a hasher's fields or the caller's password
\* and hash buffers, and every call returns what it returns when run alone.
C9_Immutable ==
  /\ [](\A g \in Goroutines : ResultAsAlone(g))
  /\ [][ /\ defaultHasher' = defaultHasher
         /\ hasher' = hasher
         /\ stored' = stored ]_vars

\* A Hash on the default hasher has returned while another goroutine is in the
\* middle of a Verify on the same hasher.
C9_Witness ==
  \E g1, g2 \in Goroutines :
    /\ g1 # g2
    /\ calls[g1].pc = "returned" /\ calls[g1].op = "Hash"
    /\ calls[g1].recv = "default"
    /\ calls[g2].pc = "compare" /\ calls[g2].recv = "default"
====
